---- MODULE Spec2Model ----
(***************************************************************************)
(* Model of src/main.py: a Streamlit script that keeps a ledger of         *)
(* transactions in st.session_state, and on every script run rebuilds a    *)
(* monthly expense series from it and fits ARIMA(1,1,1) to forecast the    *)
(* next three months.                                                      *)
(*                                                                         *)
(* A script run is two steps: the form block (lines 13-38), which appends  *)
(* a row when the form was submitted, and the rendering block (lines       *)
(* 41-101), which ends in one of four ways: no expense rows, fewer than 3  *)
(* monthly buckets, a fit that returns, a fit that raises.                 *)
(*                                                                         *)
(* Amounts are exact integers (currency units); the numeric output of the  *)
(* ARIMA fit is a nondeterministic choice, as is whether the fit raises.   *)
(* The Category and Description columns are carried by no operation the    *)
(* forecast reads and are left out of the rows.                            *)
(***************************************************************************)
EXTENDS Integers, Sequences, FiniteSets, TLC

\* ------------------------------------------------------------------ bounds
\* Rows the ledger may hold before the form stops being submitted.
MaxRows == 3

\* Values the form's widgets are given.
TypeInputs == {"Income", "Expense"}
AmountInputs == {0, 1}
DateInputs == {<<2023, 11, 15>>, <<2023, 12, 31>>, <<2024, 1, 1>>, <<2024, 3, 10>>}

\* Values a returning fit may forecast (raw model output, unclamped).
ForecastValues == {-1, 4}

\* Exceptions model.fit() may raise.
FitErrors == {"LinAlgError"}

\* ------------------------------------------------------------- calendar
HYPHEN == -1

IsLeap(y) == (y % 4 = 0 /\ y % 100 # 0) \/ y % 400 = 0

DaysInMonth(y, m) ==
    IF m = 2 THEN (IF IsLeap(y) THEN 29 ELSE 28)
    ELSE IF m \in {4, 6, 9, 11} THEN 30 ELSE 31

\* pd.to_datetime(date): a datetime.date becomes a Timestamp at midnight.
to_datetime(date) == [year |-> date[1], month |-> date[2], day |-> date[3]]

\* Timestamp.to_period("M"): the day is dropped.
to_period(t) == [year |-> t.year, month |-> t.month]

\* Period("M").astype(str) and strftime("%Y-%m"): the text "YYYY-MM", as its
\* characters (digits, and HYPHEN for "-"), zero padded.
FormatYM(p) ==
    << p.year \div 1000, (p.year \div 100) % 10, (p.year \div 10) % 10, p.year % 10,
       HYPHEN, p.month \div 10, p.month % 10 >>

\* Timestamp("YYYY-MM"): the text parsed back, to the first day of the month.
ParseYM(s) ==
    [year |-> s[1] * 1000 + s[2] * 100 + s[3] * 10 + s[4],
     month |-> s[6] * 10 + s[7],
     day |-> 1]

\* Python's str comparison: the first differing character decides.
RECURSIVE StrLess(_, _)
StrLess(a, b) ==
    IF a = <<>> THEN b # <<>>
    ELSE IF b = <<>> THEN FALSE
    ELSE IF Head(a) # Head(b) THEN Head(a) < Head(b)
    ELSE StrLess(Tail(a), Tail(b))

\* The month-end anchored offset: the last day of month number k after t's.
MonthEndAfter(t, k) ==
    LET n == t.year * 12 + (t.month - 1) + k
        y == n \div 12
        m == (n % 12) + 1
    IN [year |-> y, month |-> m, day |-> DaysInMonth(y, m)]

\* pd.date_range(start, periods, freq='M'): `periods` consecutive month ends,
\* the first one the month end on or after start.
date_range(start, periods) == [i \in 1..periods |-> MonthEndAfter(start, i - 1)]

\* t + pd.offsets.MonthBegin(): the first day of a month strictly after t.
PlusMonthBegin(t) ==
    LET n == t.year * 12 + (t.month - 1) + 1
    IN [year |-> n \div 12, month |-> (n % 12) + 1, day |-> 1]

\* ----------------------------------------------------------- the ledger
\* new_data with the sign of an expense forgotten.
new_data_unsigned(type_, amount, date) ==
    [Date |-> to_datetime(date), Type |-> type_, Amount |-> amount]

\* Lines 27-33: the row a submitted form makes.
new_data(type_, amount, date) ==
    [Date |-> to_datetime(date),
     Type |-> type_,
     Amount |-> IF type_ = "Income" THEN amount ELSE -amount]

\* Lines 34-37: pd.concat([transactions, DataFrame([new_data])]).
concat(df, row) == Append(df, row)

\* ----------------------------------------------------- the series builder
\* The filter with <= in place of <.
ExpenseRowsNonPositive(df) == SelectSeq(df, LAMBDA r : r.Amount <= 0)

\* Line 69: df[df["Amount"] < 0].copy()
ExpenseRows(df) == SelectSeq(df, LAMBDA r : r.Amount < 0)

\* Line 77: the Month column, Date.dt.to_period("M").astype(str).
WithMonth(edf) ==
    [i \in 1..Len(edf) |->
        [Date |-> edf[i].Date, Type |-> edf[i].Type, Amount |-> edf[i].Amount,
         Month |-> FormatYM(to_period(edf[i].Date))]]

\* Lines 69-77: expense_df as the grouping reads it. The form only stores
\* parsed dates, so the coercion and dropna of lines 73-74 drop nothing.
expense_df_of(df) == WithMonth(ExpenseRows(df))

\* The sum of a column, in row order.
RECURSIVE SumAmount(_)
SumAmount(rows) ==
    IF rows = <<>> THEN 0 ELSE Head(rows).Amount + SumAmount(Tail(rows))

abs(x) == IF x < 0 THEN -x ELSE x

\* groupby's sorted keys: the distinct Month texts in increasing str order.
RECURSIVE SortedKeys(_)
SortedKeys(S) ==
    IF S = {} THEN <<>>
    ELSE LET least == CHOOSE k \in S : \A o \in S : o = k \/ StrLess(k, o)
         IN <<least>> \o SortedKeys(S \ {least})

\* The keys in order of first appearance, as groupby(sort=False) gives them.
RECURSIVE FirstSeen(_, _)
FirstSeen(edf, seen) ==
    IF edf = <<>> THEN <<>>
    ELSE IF Head(edf).Month \in seen THEN FirstSeen(Tail(edf), seen)
    ELSE <<Head(edf).Month>> \o FirstSeen(Tail(edf), seen \cup {Head(edf).Month})

GroupKeysUnsorted(edf) == FirstSeen(edf, {})

GroupKeys(edf) == SortedKeys({edf[i].Month : i \in 1..Len(edf)})

\* Line 78: expense_df.groupby("Month")["Amount"].sum().abs()
groupby_sum_abs(edf) ==
    LET keys == GroupKeys(edf)
    IN [k \in 1..Len(keys) |->
          [Month |-> keys[k],
           Amount |-> abs(SumAmount(SelectSeq(edf, LAMBDA r : r.Month = keys[k])))]]

monthly_expense_of(df) == groupby_sum_abs(expense_df_of(df))

\* Line 80: the guard of the fit.
EnoughHistory(me) == Len(me) >= 3

\* Lines 81-82: ts keeps monthly_expense's values by position, and its index
\* is replaced by a date_range starting at the first Month text.
ts_of(me) ==
    LET idx == date_range(ParseYM(me[1].Month), Len(me))
    IN [i \in 1..Len(me) |-> [index |-> idx[i], value |-> me[i].Amount]]

\* Line 89: the three forecast dates.
future_dates_of(series) == date_range(PlusMonthBegin(series[Len(series)].index), 3)

\* Lines 90-93: history and forecast, labelled "%Y-%m".
forecast_df_of(series, fc) ==
    LET fd == future_dates_of(series)
    IN [i \in 1..Len(series) |->
            [Month |-> FormatYM(to_period(series[i].index)), Amount |-> series[i].value]]
       \o [i \in 1..3 |-> [Month |-> FormatYM(to_period(fd[i])), Amount |-> fc[i]]]

\* The filtered frame, with its Month column, stored back as the ledger.
LedgerWrittenBack(df, edf) == edf

\* Line 69: every assignment of lines 73-77 is made to expense_df, a copy; the
\* frame held in st.session_state keeps its rows and columns.
LedgerAfterPipeline(df, edf) == df

\* Lines 99 and 101: the texts of st.info, each with the numerals it contains.
NO_INFO == [text |-> "", numerals |-> <<>>]
MSG_ADD_MONTHS ==
    [text |-> "Add at least 3 months of expenses to see forecasts.", numerals |-> <<3>>]
MSG_NO_EXPENSES ==
    [text |-> "No valid expense dates available to forecast.", numerals |-> <<>>]

\* ---------------------------------------------------------------- state
VARIABLES
    transactions,     \* st.session_state.transactions
    submissions,      \* the form values of every submission so far, in order
    pc,               \* "idle" between runs, "render" after the form block
    expense_df,       \* this run's expense_df (<<>> when not built)
    monthly_expense,  \* this run's monthly_expense (<<>> when not built)
    ts,               \* this run's ts (<<>> when not built)
    fit,              \* "none", "returned", or the exception model.fit() raised
    forecast_df,      \* this run's forecast_df (<<>> when not built)
    chart,            \* TRUE when fig2 was passed to st.plotly_chart
    info,             \* the text st.info showed in the forecast section, or NO_INFO
    escaped           \* the exception that ended the run uncaught, or "none"

vars == <<transactions, submissions, pc, expense_df, monthly_expense, ts, fit,
          forecast_df, chart, info, escaped>>

outputs == <<expense_df, monthly_expense, ts, fit, forecast_df, chart, info, escaped>>

ClearOutputs ==
    /\ expense_df' = <<>>
    /\ monthly_expense' = <<>>
    /\ ts' = <<>>
    /\ fit' = "none"
    /\ forecast_df' = <<>>
    /\ chart' = FALSE
    /\ info' = NO_INFO
    /\ escaped' = "none"

Init ==
    /\ transactions = <<>>
    /\ submissions = <<>>
    /\ pc = "idle"
    /\ expense_df = <<>>
    /\ monthly_expense = <<>>
    /\ ts = <<>>
    /\ fit = "none"
    /\ forecast_df = <<>>
    /\ chart = FALSE
    /\ info = NO_INFO
    /\ escaped = "none"

\* Lines 13-38 of a run started by pressing "Add".
RunSubmitted(type_, amount, date) ==
    /\ pc = "idle"
    /\ Len(transactions) < MaxRows
    /\ transactions' = concat(transactions, new_data(type_, amount, date))
    /\ submissions' = Append(submissions, [type_ |-> type_, amount |-> amount, date |-> date])
    /\ pc' = "render"
    /\ ClearOutputs

\* Lines 13-38 of a run started by anything else: submitted is False.
RunNotSubmitted ==
    /\ pc = "idle"
    /\ pc' = "render"
    /\ ClearOutputs
    /\ UNCHANGED <<transactions, submissions>>

\* Lines 69-72 and 100-101: expense_df is empty.
NoExpenses ==
    /\ pc = "render"
    /\ ExpenseRows(transactions) = <<>>
    /\ info' = MSG_NO_EXPENSES
    /\ transactions' = LedgerAfterPipeline(transactions, <<>>)
    /\ pc' = "idle"
    /\ UNCHANGED <<submissions, expense_df, monthly_expense, ts, fit, forecast_df,
                   chart, escaped>>

\* Lines 69-80 and 98-99: fewer than 3 monthly buckets.
TooFewMonths ==
    /\ pc = "render"
    /\ ExpenseRows(transactions) # <<>>
    /\ ~EnoughHistory(monthly_expense_of(transactions))
    /\ expense_df' = expense_df_of(transactions)
    /\ monthly_expense' = monthly_expense_of(transactions)
    /\ info' = MSG_ADD_MONTHS
    /\ transactions' = LedgerAfterPipeline(transactions, expense_df')
    /\ pc' = "idle"
    /\ UNCHANGED <<submissions, ts, fit, forecast_df, chart, escaped>>

\* Lines 69-97: the fit returns and the chart is drawn.
FitReturns(fc) ==
    /\ pc = "render"
    /\ ExpenseRows(transactions) # <<>>
    /\ EnoughHistory(monthly_expense_of(transactions))
    /\ expense_df' = expense_df_of(transactions)
    /\ monthly_expense' = monthly_expense_of(transactions)
    /\ ts' = ts_of(monthly_expense')
    /\ fit' = "returned"
    /\ forecast_df' = forecast_df_of(ts', fc)
    /\ chart' = TRUE
    /\ transactions' = LedgerAfterPipeline(transactions, expense_df')
    /\ pc' = "idle"
    /\ UNCHANGED <<submissions, info, escaped>>

\* Lines 69-86: model.fit() raises; nothing encloses it, so the run ends there.
FitRaises(e) ==
    /\ pc = "render"
    /\ ExpenseRows(transactions) # <<>>
    /\ EnoughHistory(monthly_expense_of(transactions))
    /\ expense_df' = expense_df_of(transactions)
    /\ monthly_expense' = monthly_expense_of(transactions)
    /\ ts' = ts_of(monthly_expense')
    /\ fit' = e
    /\ escaped' = e
    /\ transactions' = LedgerAfterPipeline(transactions, expense_df')
    /\ pc' = "idle"
    /\ UNCHANGED <<submissions, forecast_df, chart, info>>

Next ==
    \/ \E type_ \in TypeInputs, amount \in AmountInputs, date \in DateInputs :
          RunSubmitted(type_, amount, date)
    \/ RunNotSubmitted
    \/ NoExpenses
    \/ TooFewMonths
    \/ \E fc \in [1..3 -> ForecastValues] : FitReturns(fc)
    \/ \E e \in FitErrors : FitRaises(e)

Spec == Init /\ [][Next]_vars

\* ------------------------------------------------- what the claims refer to
\* A run has reached the end of the forecast section (or was ended there).
RunFinished == pc = "idle" /\ (info # NO_INFO \/ fit # "none")

FitAttempted == fit # "none"

\* Calendar months, counted from year 0.
MonthNo(t) == t.year * 12 + (t.month - 1)

\* The month a "YYYY-MM" label names.
LabelNo(s) == (s[1] * 1000 + s[2] * 100 + s[3] * 10 + s[4]) * 12 + (s[6] * 10 + s[7] - 1)

\* The ledger rows that are expenses, and the months they fall in.
ExpenseIdx == {i \in 1..Len(transactions) : transactions[i].Amount < 0}
ExpenseMonths == {MonthNo(transactions[i].Date) : i \in ExpenseIdx}
FirstMonth == CHOOSE m \in ExpenseMonths : \A o \in ExpenseMonths : m <= o
LastMonth == CHOOSE m \in ExpenseMonths : \A o \in ExpenseMonths : m >= o

\* Months spanned from the earliest to the latest expense month, inclusive.
SpanLength == IF ExpenseMonths = {} THEN 0 ELSE LastMonth - FirstMonth + 1

\* The sum of |Amount| over the expense rows dated in month m.
RECURSIVE SumAbsOver(_, _)
SumAbsOver(I, m) ==
    IF I = {} THEN 0
    ELSE LET i == CHOOSE j \in I : TRUE
             a == IF MonthNo(transactions[i].Date) = m THEN -transactions[i].Amount ELSE 0
         IN a + SumAbsOver(I \ {i}, m)

ExpenseTotal(m) == SumAbsOver(ExpenseIdx, m)

Max(a, b) == IF a >= b THEN a ELSE b

\* The ledger with its rows rearranged by p.
Shuffled(p) == [i \in 1..Len(transactions) |-> transactions[p[i]]]

\* ------------------------------------------------------------------ claims

\* C1: the series that is fitted has one entry for every calendar month from
\* the earliest to the latest expense month, in increasing order, and a month
\* without expenses has the value 0.
C1_GapFreeSeries ==
    ts # <<>> =>
        /\ Len(ts) = SpanLength
        /\ \A i \in 1..Len(ts) : MonthNo(ts[i].index) = FirstMonth + i - 1
        /\ \A i \in 1..Len(ts) :
              MonthNo(ts[i].index) \notin ExpenseMonths => ts[i].value = 0

\* C2: in the series given to the model and in the history part of the chart,
\* the value under month m is the sum of |Amount| of the expense rows dated in
\* m, and is not negative.
C2_ValueIsMonthTotal ==
    /\ \A i \in 1..Len(ts) :
          ts[i].value = ExpenseTotal(MonthNo(ts[i].index)) /\ ts[i].value >= 0
    /\ chart =>
          \A i \in 1..Len(ts) :
              forecast_df[i].Amount = ExpenseTotal(LabelNo(forecast_df[i].Month))

\* C3: after a fit that returned, the forecast has 3 entries labelled with the
\* 3 months that follow the latest month holding an expense; no forecast label
\* is a month at or before a month holding an expense.
C3_ForecastFollowsLastExpense ==
    fit = "returned" =>
        /\ Len(forecast_df) = Len(ts) + 3
        /\ \A k \in 1..3 : LabelNo(forecast_df[Len(ts) + k].Month) = LastMonth + k
        /\ \A k \in 1..3 : \A m \in ExpenseMonths :
              LabelNo(forecast_df[Len(ts) + k].Month) > m

\* C4: the fit is attempted exactly when the months spanned from the earliest
\* to the latest expense month number at least 3.
C4_FitIffSpanAtLeast3 ==
    RunFinished => (FitAttempted <=> SpanLength >= 3)

\* C5: a fit that raises does not escape the run as an uncaught exception, and
\* the run produces no forecast rows and no forecast chart.
C5_FitFailureIsHandled ==
    fit \in FitErrors =>
        /\ escaped = "none"
        /\ forecast_df = <<>>
        /\ ~chart

\* C6: when the forecast is refused for a series of length L < 3, the message
\* states the number max(1, 3 - L) of further months needed.
C6_MessageStatesMonthsNeeded ==
    (RunFinished /\ ~FitAttempted) =>
        info.numerals = << Max(1, 3 - Len(monthly_expense)) >>

\* C7: with no row of negative amount in the ledger, a finished run built an
\* empty series, attempted no fit, produced no forecast and no chart, raised
\* nothing, and showed the informational message.
C7_NoExpensesNoForecast ==
    (RunFinished /\ \A i \in 1..Len(transactions) : transactions[i].Amount >= 0) =>
        /\ monthly_expense = <<>>
        /\ ts = <<>>
        /\ ~FitAttempted
        /\ forecast_df = <<>>
        /\ ~chart
        /\ escaped = "none"
        /\ info = MSG_NO_EXPENSES

C7_Witness ==
    /\ RunFinished
    /\ Len(transactions) >= 2
    /\ \A i \in 1..Len(transactions) : transactions[i].Amount >= 0
    /\ \E i \in 1..Len(transactions) : transactions[i].Amount > 0
    /\ \E i \in 1..Len(transactions) : transactions[i].Type = "Expense"

\* C8: when a run has finished, every rearrangement of the ledger rows gives
\* the same monthly series (labels, order, values), the same decision to fit
\* and the same fitted series as the ones the run computed from the ledger as
\* stored.
C8_OrderInsensitive ==
    RunFinished =>
        LET stored == monthly_expense_of(transactions)
            built == ExpenseRows(transactions) # <<>>
        IN \A p \in Permutations(1..Len(transactions)) :
              LET me == monthly_expense_of(Shuffled(p))
              IN /\ me = stored
                 /\ (ExpenseRows(Shuffled(p)) # <<>>) = built
                 /\ built =>
                       /\ monthly_expense = me
                       /\ FitAttempted = EnoughHistory(me)
                       /\ FitAttempted => ts = ts_of(me)

C8_Witness ==
    /\ RunFinished
    /\ fit = "returned"
    /\ \E i, j \in ExpenseIdx :
          i < j /\ MonthNo(transactions[i].Date) > MonthNo(transactions[j].Date)

\* C9: the rendering step of a run, whichever way it ends, leaves the ledger
\* as it was: same rows, same order, same columns.
C9_PipelineKeepsLedger ==
    [][pc = "render" => transactions' = transactions]_vars

C9_Witness ==
    /\ RunFinished
    /\ chart
    /\ Len(expense_df) >= 3
    /\ Len(transactions) >= 3
    /\ \A i \in 1..Len(transactions) : DOMAIN transactions[i] = {"Date", "Type", "Amount"}

\* C10: the ledger is the log of the submitted forms, in order, one row per
\* submission; a row's Amount is +a for Income and -a for Expense, so a row is
\* an expense only if its Type is Expense and a > 0.
C10_LedgerIsSubmissionLog ==
    /\ Len(transactions) = Len(submissions)
    /\ \A i \in 1..Len(transactions) :
          LET r == transactions[i]
              s == submissions[i]
          IN /\ r.Type = s.type_
             /\ r.Date = [year |-> s.date[1], month |-> s.date[2], day |-> s.date[3]]
             /\ s.amount >= 0
             /\ s.type_ = "Income" => r.Amount = s.amount
             /\ s.type_ = "Expense" => r.Amount = -s.amount
             /\ r.Amount < 0 => (s.type_ = "Expense" /\ s.amount > 0)

C10_Witness ==
    /\ pc = "idle"
    /\ Len(transactions) >= 3
    /\ \E i \in 1..Len(transactions) :
          transactions[i].Type = "Expense" /\ transactions[i].Amount < 0
    /\ \E i \in 1..Len(transactions) :
          transactions[i].Type = "Income" /\ transactions[i].Amount > 0
    /\ \E i \in 1..Len(transactions) :
          transactions[i].Type = "Expense" /\ transactions[i].Amount = 0

====
